---- MODULE Spec2Model ----
(***************************************************************************)
(* A model of the Legend component (src/src/components/legend.ts): entry   *)
(* derivation (getEntryData), space negotiation (requestedSpace), render   *)
(* reconciliation (renderImmediately), click dispatch, the accessor /      *)
(* mutator surface and the colour-scale subscription.                      *)
(*                                                                         *)
(* Conventions.                                                            *)
(*  - Lengths returned by requestedSpace are kept in tenths of a pixel, so *)
(*    that `height * 0.6` stays an integer for integer measurements.       *)
(*  - Opacities are kept in percent (100 is the number 1).                 *)
(*  - Indexes handed to callbacks and accessors are 0-based, as in the     *)
(*    code; positions in TLA+ sequences are 1-based.                       *)
(*  - User-supplied functions (formatter, comparator, accessors, click     *)
(*    callbacks) are drawn from small sets of named functions.             *)
(***************************************************************************)
EXTENDS Integers, Sequences, FiniteSets, TLC

VARIABLES
  domain,                  \* [Scales -> Seq(Keys)]: each colour scale's domain
  registered,              \* the scales whose callback set holds _redrawCallback
  _colorScale,             \* Legend._colorScale
  _formatter,              \* Legend._formatter
  _comparator,             \* Legend._comparator
  _symbolFactoryAccessor,  \* Legend._symbolFactoryAccessor
  _symbolOpacityAccessor,  \* Legend._symbolOpacityAccessor
  _orientation,            \* Legend._orientation
  _onEntryClicked,         \* Legend._onEntryClicked
  _isSetup,                \* _setup() has run: the container and the measurer exist
  _container,              \* the entry nodes of Legend._container, in document order
  _measurer,               \* Legend._measurer: Null before _setup
  destroyed,               \* Component.destroy() has run
  redrawPending,           \* a redraw() request the framework has not served yet
  renderPending,           \* a render() request the framework has not served yet
  renderedData,            \* history: the entry list the latest render pass derived
  boundAtDestroy,          \* history: the scale held when destroy() ran (Null before)
  resubscribed,            \* history: colorScale(s) was called after destroy()
  last                     \* observation of the last operation: what it returned and called

vars == <<domain, registered, _colorScale, _formatter, _comparator,
          _symbolFactoryAccessor, _symbolOpacityAccessor, _orientation,
          _onEntryClicked, _isSetup, _container, _measurer, destroyed,
          redrawPending, renderPending, renderedData, boundAtDestroy,
          resubscribed, last>>

----------------------------------------------------------------------------
(* Bounds of the model *)

NumKeys == 3
MaxDomain == 3

----------------------------------------------------------------------------
(* The values the model draws from *)

Null == "null"

KeyPool == <<"a", "bb", "c", "dd", "e">>
Keys == {KeyPool[i] : i \in 1..NumKeys}

Range(s) == {s[i] : i \in 1..Len(s)}

\* A colour scale's domain is an ordered set of keys: no key twice.
RECURSIVE DomainsUpTo(_)
DomainsUpTo(n) ==
  IF n = 0 THEN {<<>>}
  ELSE LET shorter == DomainsUpTo(n - 1)
       IN shorter \cup
          UNION {{Append(s, k) : k \in Keys \ Range(s)} :
                   s \in {t \in shorter : Len(t) = n - 1}}

Domains == DomainsUpTo(MaxDomain)

Scales == {"s1", "s2"}
Orientations == {"horizontal", "vertical"}
\* Formatters: the identity, an injective renaming, and one that maps distinct
\* keys to the same label.
FormatterFns == {"identity", "upper", "length"}
\* Comparators: the constructor's default, three consistent user comparators
\* (byLength has ties between distinct labels) and one that is not a consistent
\* comparison function.
ComparatorFns == {"default", "ascending", "descending", "byLength", "always1"}
\* Accessors are stored as functions: a constant function [kind |-> "constant"]
\* or a named user function of (key, index). A symbol factory stored where an
\* accessor is expected is [kind |-> "factory"].
Constant(v) == [kind |-> "constant", value |-> v]
Function(fn) == [kind |-> "function", value |-> fn]
Factory(v) == [kind |-> "factory", value |-> v]
SymbolFactories == {"circle", "square", "triangle"}
SymbolFunctions == {"shapeOf"}
OpacityNumbers == {50}
OpacityFunctions == {"fade"}
SymbolAccessors == {Constant("circle")} \cup {Function(fn) : fn \in SymbolFunctions}
OpacityAccessors ==
  {Constant(100)} \cup {Constant(n) : n \in OpacityNumbers}
                  \cup {Function(fn) : fn \in OpacityFunctions}
\* The accessor pairs a configured legend is started with: the defaults, and
\* a user function of (key, index) for each.
AccessorPairs == {<<Constant("circle"), Constant(100)>>,
                  <<Function("shapeOf"), Function("fade")>>}
MeasurerFns == {"wide", "tall"}
Callbacks == {"cb1", "cb2"}
Offers == {0, 300}

----------------------------------------------------------------------------
(* The collaborators' functions *)

TextLength(k) == IF k \in {"bb", "dd", "BB", "DD"} THEN 2 ELSE 1

\* String order of the labels (code-unit order: digits, upper case, lower case).
NameRank(n) ==
  CASE n = "1" -> 1 [] n = "2" -> 2
    [] n = "A" -> 3 [] n = "BB" -> 4 [] n = "C" -> 5 [] n = "DD" -> 6 [] n = "E" -> 7
    [] n = "a" -> 8 [] n = "bb" -> 9 [] n = "c" -> 10 [] n = "dd" -> 11 [] n = "e" -> 12

\* this._formatter(key)
Formatter(f, key) ==
  CASE f = "identity" -> key
    [] f = "upper" -> (CASE key = "a" -> "A" [] key = "bb" -> "BB" [] key = "c" -> "C"
                         [] key = "dd" -> "DD" [] key = "e" -> "E")
    [] f = "length" -> (IF TextLength(key) = 1 THEN "1" ELSE "2")

\* Array.prototype.indexOf: the 0-based index of the first occurrence, or -1.
IndexOf(s, x) ==
  IF x \in Range(s) THEN (CHOOSE i \in 1..Len(s) :
                            s[i] = x /\ \A j \in 1..(i - 1) : s[j] # x) - 1
  ELSE -1

\* The constructor's comparator: the difference of the two labels' indexes in
\* the formatted domain of the scale held when the comparator is called.
DefaultComparator(a, b, dom, f) ==
  LET formattedText == [i \in 1..Len(dom) |-> Formatter(f, dom[i])]
  IN IndexOf(formattedText, a) - IndexOf(formattedText, b)

\* this._comparator(a, b) on two formatted labels
Comparator(c, a, b, dom, f) ==
  CASE c = "default" -> DefaultComparator(a, b, dom, f)
    [] c = "ascending" -> (IF NameRank(a) < NameRank(b) THEN -1
                           ELSE IF NameRank(a) > NameRank(b) THEN 1 ELSE 0)
    [] c = "descending" -> NameRank(b) - NameRank(a)
    [] c = "byLength" -> TextLength(a) - TextLength(b)
    [] c = "always1" -> 1

\* The colour scale's mapping of a key (an abstract colour per scale and key).
ScaleColor(s, key) == <<"color", s, key>>

\* A user accessor function of (key, index): both depend on the key and on the index.
UserFunction(fn, key, index) ==
  CASE fn = "shapeOf" -> (IF TextLength(key) = 2 THEN "square"
                          ELSE IF index % 2 = 0 THEN "circle" ELSE "triangle")
    [] fn = "fade" -> 100 - 25 * index - (IF TextLength(key) = 2 THEN 10 ELSE 0)

\* A symbol factory called as if it were an accessor, factory(key, index): a
\* symbol factory maps a size to a path description, so the call returns a
\* path description string, which is not a symbol factory.
FactoryCalledAsAccessor(factory, key, index) == "path description"

\* An accessor called with (key, index).
ApplyAccessor(acc, key, index) ==
  CASE acc.kind = "constant" -> acc.value
    [] acc.kind = "function" -> UserFunction(acc.value, key, index)
    [] acc.kind = "factory" -> FactoryCalledAsAccessor(acc.value, key, index)

\* entry.symbol(size): the path description drawn by a symbol factory.
SymbolPath(factory, size) == <<"path", factory, size>>

\* this._measurer.measure(text), in pixels.
Measure(m, text) ==
  CASE m = "wide" -> [width |-> 10 * TextLength(text), height |-> 10]
    [] m = "tall" -> [width |-> 4 * TextLength(text),
                      height |-> IF TextLength(text) = 1 THEN 25 ELSE 12]

----------------------------------------------------------------------------
(* Entry derivation: getEntryData *)

\* The comparison the sort makes on two keys:
\* this._comparator(this._formatter(a), this._formatter(b)).
SortCompare(c, f, dom) ==
  [p \in Keys \X Keys |-> Comparator(c, Formatter(f, p[1]), Formatter(f, p[2]), dom, f)]

\* A consistent comparison function on the set S (ECMAScript, Array.prototype.sort).
ConsistentOn(cmp, S) ==
  /\ \A a \in S : cmp[<<a, a>>] = 0
  /\ \A a, b \in S : /\ (cmp[<<a, b>>] < 0) = (cmp[<<b, a>>] > 0)
                     /\ (cmp[<<a, b>>] = 0) = (cmp[<<b, a>>] = 0)
  /\ \A a, b, d \in S :
       /\ (cmp[<<a, b>>] = 0 /\ cmp[<<b, d>>] = 0) => cmp[<<a, d>>] = 0
       /\ (cmp[<<a, b>>] < 0 /\ cmp[<<b, d>>] <= 0) => cmp[<<a, d>>] < 0
       /\ (cmp[<<a, b>>] <= 0 /\ cmp[<<b, d>>] < 0) => cmp[<<a, d>>] < 0

\* A faulty variant of InsertionPoint: x also moves past the elements it ties with.
RECURSIVE InsertionPointPastTies(_, _, _, _)
InsertionPointPastTies(s, x, cmp, j) ==
  IF j = 0 THEN 0
  ELSE IF cmp[<<s[j], x>>] >= 0 THEN InsertionPointPastTies(s, x, cmp, j - 1)
  ELSE j

\* Insertion of x into the sorted prefix s: x moves left past every element
\* that compares greater than it, and stops at the first that does not.
RECURSIVE InsertionPoint(_, _, _, _)
InsertionPoint(s, x, cmp, j) ==
  IF j = 0 THEN 0
  ELSE IF cmp[<<s[j], x>>] > 0 THEN InsertionPoint(s, x, cmp, j - 1)
  ELSE j

InsertElement(s, x, cmp) ==
  LET j == InsertionPoint(s, x, cmp, Len(s))
  IN SubSeq(s, 1, j) \o <<x>> \o SubSeq(s, j + 1, Len(s))

RECURSIVE InsertionSort(_, _)
InsertionSort(s, cmp) ==
  IF s = <<>> THEN <<>>
  ELSE InsertElement(InsertionSort(SubSeq(s, 1, Len(s) - 1), cmp), s[Len(s)], cmp)

SeqPermutations(s) ==
  {p \in [1..Len(s) -> Range(s)] : \A x \in Range(s) : \E i \in 1..Len(s) : p[i] = x}

\* array.slice().sort(comparefn): the orders the sort may produce. With a
\* consistent comparison function the result is the stable sort; with an
\* inconsistent one the order is implementation-defined (some permutation).
ArraySort(s, cmp) ==
  IF ConsistentOn(cmp, Range(s)) THEN {InsertionSort(s, cmp)} ELSE SeqPermutations(s)

\* A faulty variant of MakeEntry: the colour is looked up by the formatted name.
MakeEntryColorByName(key, index, scale, f, opacityAccessor, symbolAccessor) ==
  [color |-> ScaleColor(scale, Formatter(f, key)),
   name |-> Formatter(f, key),
   opacity |-> ApplyAccessor(opacityAccessor, key, index),
   symbol |-> ApplyAccessor(symbolAccessor, key, index)]

\* A faulty variant of MakeEntry: the accessors are called with the formatted
\* name.
MakeEntryAccessorsByName(key, index, scale, f, opacityAccessor, symbolAccessor) ==
  [color |-> ScaleColor(scale, key),
   name |-> Formatter(f, key),
   opacity |-> ApplyAccessor(opacityAccessor, Formatter(f, key), index),
   symbol |-> ApplyAccessor(symbolAccessor, Formatter(f, key), index)]

\* The entry built for the key at 0-based position index of the sorted keys.
MakeEntry(key, index, scale, f, opacityAccessor, symbolAccessor) ==
  [color |-> ScaleColor(scale, key),
   name |-> Formatter(f, key),
   opacity |-> ApplyAccessor(opacityAccessor, key, index),
   symbol |-> ApplyAccessor(symbolAccessor, key, index)]

MapEntries(entryNames, scale, f, opacityAccessor, symbolAccessor) ==
  [i \in 1..Len(entryNames) |->
     MakeEntry(entryNames[i], i - 1, scale, f, opacityAccessor, symbolAccessor)]

\* getEntryData() of a legend with the given fields: the lists it may return.
EntryData(dom, scale, f, c, opacityAccessor, symbolAccessor) ==
  {MapEntries(entryNames, scale, f, opacityAccessor, symbolAccessor) :
     entryNames \in ArraySort(dom, SortCompare(c, f, dom))}

\* this.getEntryData() in the current state
getEntryData ==
  EntryData(domain[_colorScale], _colorScale, _formatter, _comparator,
            _symbolOpacityAccessor, _symbolFactoryAccessor)

\* A faulty variant of DomainAfterSort: the scale's own array is sorted.
DomainSortedInPlace(dom, entryNames) == entryNames

\* The scale's domain after getEntryData has sorted: domain().slice().sort(...)
\* sorts the copy that slice() made, and the scale's array keeps its order.
DomainAfterSort(dom, entryNames) == dom

\* One run of getEntryData in the current state: the sorted keys and the
\* entries mapped from them.
Derivations ==
  {[entryNames |-> entryNames,
    data |-> MapEntries(entryNames, _colorScale, _formatter,
                        _symbolOpacityAccessor, _symbolFactoryAccessor)] :
     entryNames \in ArraySort(domain[_colorScale],
                              SortCompare(_comparator, _formatter, domain[_colorScale]))}

\* The scales' domains after that run.
DomainsAfter(run) ==
  [domain EXCEPT ![_colorScale] = DomainAfterSort(@, run.entryNames)]

----------------------------------------------------------------------------
(* Space negotiation: requestedSpace *)

NegativeInfinity == [infinite |-> TRUE, tenths |-> 0]
Number(tenths) == [infinite |-> FALSE, tenths |-> tenths]

\* A faulty variant of EntryWidth: the right margin is left out.
EntryWidthNoMargin(measurement) ==
  LET nameWidth == 10 * measurement.width
      symbolWidth == 6 * measurement.height + 50
  IN nameWidth + symbolWidth

\* nameWidth + symbolWidth + marginRight of one measurement, in tenths of a pixel
EntryWidth(measurement) ==
  LET nameWidth == 10 * measurement.width
      symbolWidth == 6 * measurement.height + 50
      marginRight == 100
  IN nameWidth + symbolWidth + marginRight

\* Math.max(...values): -Infinity when there is no value.
MathMax(values) ==
  IF values = <<>> THEN NegativeInfinity
  ELSE Number(CHOOSE m \in Range(values) : \A v \in Range(values) : v <= m)

\* requestedSpace(offeredWidth, offeredHeight) on the derived entries entryData
SpaceRequest(entryData, m, offeredWidth, offeredHeight) ==
  LET entryMeasurements == [i \in 1..Len(entryData) |-> Measure(m, entryData[i].name)]
      maxEntryWidth ==
        MathMax([i \in 1..Len(entryData) |-> EntryWidth(entryMeasurements[i])])
  IN [minWidth |-> maxEntryWidth, minHeight |-> offeredHeight]

----------------------------------------------------------------------------
(* Render reconciliation: renderImmediately *)

SVG_VIEWBOX_SIZE == 100

NodeIds(nodes) == {nodes[i].id : i \in 1..Len(nodes)}

\* The k-th smallest node identity, from `from` up, that no node of `used` has.
RECURSIVE NthFree(_, _, _)
NthFree(used, k, from) ==
  IF from \in used THEN NthFree(used, k, from + 1)
  ELSE IF k = 1 THEN from
  ELSE NthFree(used, k - 1, from + 1)

Min(a, b) == IF a < b THEN a ELSE b

\* A faulty variant of UpdateSelection: the old nodes keep the datum they had.
UpdateSelectionStale(nodes, data) ==
  [i \in 1..Min(Len(nodes), Len(data)) |-> nodes[i]]

\* selectAll(".legend-entry").data(data), no key function: the join is by
\* position; the update selection is the first min(n, m) nodes, each bound to
\* the datum at its position.
UpdateSelection(nodes, data) ==
  [i \in 1..Min(Len(nodes), Len(data)) |-> [nodes[i] EXCEPT !.datum = data[i]]]

\* A faulty variant of ExitSelection: no node ever leaves.
ExitSelectionNone(nodes, data) == <<>>

\* entriesUpdate.exit(): the old nodes past the end of the data.
ExitSelection(nodes, data) == SubSeq(nodes, Len(data) + 1, Len(nodes))

\* entriesUpdate.enter().append("div") with its svg > path and span children:
\* one new node per datum past the end of the old nodes, bound to that datum.
EnterSelection(nodes, data) ==
  [k \in 1..(Len(data) - Min(Len(nodes), Len(data))) |->
     [id |-> NthFree(NodeIds(nodes), k, 1),
      children |-> <<"svg.legend-symbol path", "span.legend-name">>,
      datum |-> data[Len(nodes) + k],
      d |-> Null, fill |-> Null, opacity |-> Null, text |-> Null,
      listeners |-> <<>>]]

\* entries.each(...): the symbol path's attributes and the label's text are set
\* from the node's bound entry.
DrawEntry(node) ==
  [node EXCEPT !.d = SymbolPath(node.datum.symbol, SVG_VIEWBOX_SIZE),
               !.fill = node.datum.color,
               !.opacity = node.datum.opacity,
               !.text = node.datum.name]

\* A faulty variant of OnClick: the listener is added to those already there.
OnClickAccumulating(node, index) ==
  [node EXCEPT !.listeners = Append(@, [type |-> "click", index |-> index])]

\* entries.on("click", listener): the node's click listener is replaced by one
\* that carries the node's 0-based index in the selection.
OnClick(node, index) ==
  [node EXCEPT !.listeners = <<[type |-> "click", index |-> index]>>]

\* A faulty variant of Rendered: every old node is removed and every entry
\* gets a new node.
RenderedFromScratch(nodes, data) ==
  [i \in 1..Len(data) |->
     OnClick(DrawEntry([id |-> NthFree(NodeIds(nodes), i, 1),
                        children |-> <<"svg.legend-symbol path", "span.legend-name">>,
                        datum |-> data[i],
                        d |-> Null, fill |-> Null, opacity |-> Null, text |-> Null,
                        listeners |-> <<>>]),
             i - 1)]

\* The container's entry nodes after renderImmediately() has derived `data`:
\* the exit selection is removed, the enter selection is appended, and every
\* node of the merged selection is drawn and given the click listener.
Rendered(nodes, data) ==
  LET entriesUpdate == UpdateSelection(nodes, data)
      exit == ExitSelection(nodes, data)
      entriesEnter == EnterSelection(nodes, data)
      bound == [i \in 1..Len(nodes) |->
                  IF i <= Len(entriesUpdate) THEN entriesUpdate[i] ELSE nodes[i]]
      children == SelectSeq(bound, LAMBDA n : n.id \notin NodeIds(exit)) \o entriesEnter
      entries == entriesUpdate \o entriesEnter
      IndexIn(n) == CHOOSE i \in 1..Len(entries) : entries[i].id = n.id
  IN [i \in 1..Len(children) |->
        IF children[i].id \in NodeIds(entries)
        THEN OnClick(DrawEntry(children[i]), IndexIn(children[i]) - 1)
        ELSE children[i]]

\* The calls a click on `node` makes: each click listener on the node calls
\* the registered callback, if any, with (datum, index, node).
ClickCalls(node, callback) ==
  IF callback = Null THEN <<>>
  ELSE [k \in 1..Len(node.listeners) |->
          [callback |-> callback, entry |-> node.datum,
           index |-> node.listeners[k].index, node |-> node.id]]

----------------------------------------------------------------------------
(* The component framework and the colour scale, as far as the legend uses them *)

\* Component.redraw() / Component.render(): a deferred request, which a
\* destroyed (detached) component no longer schedules.
RequestScheduled == ~destroyed

\* Scale.onUpdate(callback) / Scale.offUpdate(callback): the callbacks of a
\* scale are a set.
OnUpdate(reg, scale) == reg \cup {scale}
OffUpdate(reg, scale) == reg \ {scale}

\* How many times an update of `scale` calls the legend's _redrawCallback.
RedrawCallbackCalls(reg, scale) == IF scale \in reg THEN 1 ELSE 0

----------------------------------------------------------------------------
(* Construction *)

\* new Legend(colorScale, orientation) with a non-null colour scale. The
\* constructor's this.comparator(...) call requests a redraw.
Constructed(colorScale, orientation) ==
  /\ _orientation = orientation
  /\ _colorScale = colorScale
  /\ registered = OnUpdate({}, colorScale)
  /\ _formatter = "identity"
  /\ _comparator = "default"
  /\ _symbolFactoryAccessor = Constant("circle")
  /\ _symbolOpacityAccessor = Constant(100)
  /\ _onEntryClicked = Null
  /\ _isSetup = FALSE
  /\ _container = <<>>
  /\ _measurer = Null
  /\ destroyed = FALSE
  /\ redrawPending = TRUE
  /\ renderPending = FALSE
  /\ renderedData = <<>>
  /\ boundAtDestroy = Null
  /\ resubscribed = FALSE
  /\ last = [op |-> "constructor", threw |-> FALSE, orientation |-> orientation]

Init ==
  /\ domain \in [Scales -> Domains]
  /\ \E s \in Scales, o \in Orientations : Constructed(s, o)

----------------------------------------------------------------------------
(* Operations *)

\* _setup(): the entry container and the measurer are acquired.
_setup ==
  /\ ~_isSetup
  /\ ~destroyed
  /\ _isSetup' = TRUE
  /\ _container' = <<>>
  /\ \E m \in MeasurerFns : _measurer' = m
  /\ last' = [op |-> "_setup"]
  /\ UNCHANGED <<domain, registered, _colorScale, _formatter, _comparator,
                 _symbolFactoryAccessor, _symbolOpacityAccessor, _orientation,
                 _onEntryClicked, destroyed, redrawPending, renderPending,
                 renderedData, boundAtDestroy, resubscribed>>

\* The accessors below return the field when called with no argument (null);
\* with an argument they store it and call redraw() or render(). `called`
\* records which of the two the call made.

\* formatter(formatter?)
formatter(f) ==
  /\ IF f = Null
     THEN /\ last' = [op |-> "formatter", arg |-> f, ret |-> _formatter,
                      called |-> "none"]
          /\ UNCHANGED <<_formatter, redrawPending>>
     ELSE /\ _formatter' = f
          /\ redrawPending' = (redrawPending \/ RequestScheduled)
          /\ last' = [op |-> "formatter", arg |-> f, ret |-> "this",
                      called |-> "redraw"]
  /\ UNCHANGED <<domain, registered, _colorScale, _comparator,
                 _symbolFactoryAccessor, _symbolOpacityAccessor, _orientation,
                 _onEntryClicked, _container, _isSetup, _measurer, destroyed, renderPending,
                 renderedData, boundAtDestroy, resubscribed>>

\* orientation(orientation?)
orientation(o) ==
  /\ IF o = Null
     THEN /\ last' = [op |-> "orientation", arg |-> o, ret |-> _orientation,
                      called |-> "none"]
          /\ UNCHANGED <<_orientation, redrawPending>>
     ELSE /\ _orientation' = o
          /\ redrawPending' = (redrawPending \/ RequestScheduled)
          /\ last' = [op |-> "orientation", arg |-> o, ret |-> "this",
                      called |-> "redraw"]
  /\ UNCHANGED <<domain, registered, _colorScale, _formatter, _comparator,
                 _symbolFactoryAccessor, _symbolOpacityAccessor,
                 _onEntryClicked, _container, _isSetup, _measurer, destroyed, renderPending,
                 renderedData, boundAtDestroy, resubscribed>>

\* A faulty variant of comparator: the comparator is stored and nothing is
\* requested.
comparatorSilent(c) ==
  /\ IF c = Null
     THEN /\ last' = [op |-> "comparator", arg |-> c, ret |-> _comparator,
                      called |-> "none"]
          /\ UNCHANGED _comparator
     ELSE /\ _comparator' = c
          /\ last' = [op |-> "comparator", arg |-> c, ret |-> "this",
                      called |-> "none"]
  /\ UNCHANGED <<domain, registered, _colorScale, _formatter,
                 _symbolFactoryAccessor, _symbolOpacityAccessor, _orientation,
                 _onEntryClicked, _container, _isSetup, _measurer, destroyed,
                 redrawPending, renderPending, renderedData, boundAtDestroy,
                 resubscribed>>

\* comparator(comparator?)
comparator(c) ==
  /\ IF c = Null
     THEN /\ last' = [op |-> "comparator", arg |-> c, ret |-> _comparator,
                      called |-> "none"]
          /\ UNCHANGED <<_comparator, redrawPending>>
     ELSE /\ _comparator' = c
          /\ redrawPending' = (redrawPending \/ RequestScheduled)
          /\ last' = [op |-> "comparator", arg |-> c, ret |-> "this",
                      called |-> "redraw"]
  /\ UNCHANGED <<domain, registered, _colorScale, _formatter,
                 _symbolFactoryAccessor, _symbolOpacityAccessor, _orientation,
                 _onEntryClicked, _container, _isSetup, _measurer, destroyed, renderPending,
                 renderedData, boundAtDestroy, resubscribed>>

\* A faulty variant of Resubscribe: the callback stays on the old scale.
ResubscribeKeepingOld(reg, old, new) == OnUpdate(reg, new)

\* The subscription change of colorScale(newScale): the callback leaves the
\* scale held so far and joins the new one.
Resubscribe(reg, old, new) == OnUpdate(OffUpdate(reg, old), new)

\* A faulty variant of colorScale: a call without argument unbinds the legend
\* from the scale held.
colorScaleUnbindingOnNull(s) ==
  /\ IF s # Null
     THEN /\ registered' = Resubscribe(registered, _colorScale, s)
          /\ _colorScale' = s
          /\ redrawPending' = (redrawPending \/ RequestScheduled)
          /\ resubscribed' = (resubscribed \/ destroyed)
          /\ last' = [op |-> "colorScale", arg |-> s, ret |-> "this",
                      called |-> "redraw"]
     ELSE /\ registered' = OffUpdate(registered, _colorScale)
          /\ last' = [op |-> "colorScale", arg |-> s, ret |-> _colorScale,
                      called |-> "none"]
          /\ UNCHANGED <<_colorScale, redrawPending, resubscribed>>
  /\ UNCHANGED <<domain, _formatter, _comparator,
                 _symbolFactoryAccessor, _symbolOpacityAccessor, _orientation,
                 _onEntryClicked, _container, _isSetup, _measurer, destroyed, renderPending,
                 renderedData, boundAtDestroy>>

\* colorScale(colorScale?)
colorScale(s) ==
  /\ IF s # Null
     THEN /\ registered' = Resubscribe(registered, _colorScale, s)
          /\ _colorScale' = s
          /\ redrawPending' = (redrawPending \/ RequestScheduled)
          /\ resubscribed' = (resubscribed \/ destroyed)
          /\ last' = [op |-> "colorScale", arg |-> s, ret |-> "this",
                      called |-> "redraw"]
     ELSE /\ last' = [op |-> "colorScale", arg |-> s, ret |-> _colorScale,
                      called |-> "none"]
          /\ UNCHANGED <<registered, _colorScale, redrawPending, resubscribed>>
  /\ UNCHANGED <<domain, _formatter, _comparator,
                 _symbolFactoryAccessor, _symbolOpacityAccessor, _orientation,
                 _onEntryClicked, _container, _isSetup, _measurer, destroyed, renderPending,
                 renderedData, boundAtDestroy>>

\* A faulty variant of Release: the callback stays where it is.
ReleaseNothing(reg, scale) == reg

\* The subscription change of destroy(): the callback leaves the scale held.
Release(reg, scale) == OffUpdate(reg, scale)

\* destroy(): the component is destroyed, then the subscription is released.
destroy ==
  /\ destroyed' = TRUE
  /\ registered' = Release(registered, _colorScale)
  /\ boundAtDestroy' = _colorScale
  /\ resubscribed' = FALSE
  /\ last' = [op |-> "destroy"]
  /\ UNCHANGED <<domain, _colorScale, _formatter, _comparator,
                 _symbolFactoryAccessor, _symbolOpacityAccessor, _orientation,
                 _onEntryClicked, _container, _isSetup, _measurer, redrawPending,
                 renderPending, renderedData>>

\* Arguments of the symbol and symbolOpacity accessors' setters.
NullArg == [type |-> "null", value |-> Null]
NumberArg(n) == [type |-> "number", value |-> n]
FunctionArg(fn) == [type |-> "function", value |-> fn]
\* A constant symbol (a symbol factory) handed to symbol().
FactoryArg(v) == [type |-> "factory", value |-> v]

\* What symbol() stores for its argument: the argument itself, as the accessor.
Unwrapped(arg) ==
  IF arg.type = "function" THEN Function(arg.value) ELSE Factory(arg.value)

\* symbol(symbol?): the argument is stored as the accessor; render() is called.
symbol(arg) ==
  /\ IF arg.type = "null"
     THEN /\ last' = [op |-> "symbol", arg |-> arg, ret |-> _symbolFactoryAccessor,
                      called |-> "none"]
          /\ UNCHANGED <<_symbolFactoryAccessor, renderPending>>
     ELSE /\ _symbolFactoryAccessor' = Unwrapped(arg)
          /\ renderPending' = (renderPending \/ RequestScheduled)
          /\ last' = [op |-> "symbol", arg |-> arg, ret |-> "this",
                      called |-> "render"]
  /\ UNCHANGED <<domain, registered, _colorScale, _formatter, _comparator,
                 _symbolOpacityAccessor, _orientation,
                 _onEntryClicked, _container, _isSetup, _measurer, destroyed, redrawPending,
                 renderedData, boundAtDestroy, resubscribed>>

\* A faulty variant of Wrapped: the constant function returns the default
\* opacity 1, not the number given.
WrappedAsDefault(arg) ==
  IF arg.type = "number" THEN Constant(100) ELSE Function(arg.value)

\* What symbolOpacity() stores for its argument: a number is wrapped into a
\* constant function, a function is stored as it is.
Wrapped(arg) ==
  IF arg.type = "number" THEN Constant(arg.value) ELSE Function(arg.value)

\* symbolOpacity(symbolOpacity?): the wrapped argument is stored; render() is called.
symbolOpacity(arg) ==
  /\ IF arg.type = "null"
     THEN /\ last' = [op |-> "symbolOpacity", arg |-> arg, ret |-> _symbolOpacityAccessor,
                      called |-> "none"]
          /\ UNCHANGED <<_symbolOpacityAccessor, renderPending>>
     ELSE /\ _symbolOpacityAccessor' = Wrapped(arg)
          /\ renderPending' = (renderPending \/ RequestScheduled)
          /\ last' = [op |-> "symbolOpacity", arg |-> arg, ret |-> "this",
                      called |-> "render"]
  /\ UNCHANGED <<domain, registered, _colorScale, _formatter, _comparator,
                 _symbolFactoryAccessor, _orientation,
                 _onEntryClicked, _container, _isSetup, _measurer, destroyed, redrawPending,
                 renderedData, boundAtDestroy, resubscribed>>

\* onEntryClicked(callback)
onEntryClicked(callback) ==
  /\ _onEntryClicked' = callback
  /\ last' = [op |-> "onEntryClicked", arg |-> callback]
  /\ UNCHANGED <<domain, registered, _colorScale, _formatter, _comparator,
                 _symbolFactoryAccessor, _symbolOpacityAccessor, _orientation,
                 _container, _isSetup, _measurer, destroyed, redrawPending, renderPending,
                 renderedData, boundAtDestroy, resubscribed>>

\* getEntryData(), called from outside.
CallGetEntryData ==
  /\ \E run \in Derivations :
       /\ last' = [op |-> "getEntryData", ret |-> run.data]
       /\ domain' = DomainsAfter(run)
  /\ UNCHANGED <<registered, _colorScale, _formatter, _comparator,
                 _symbolFactoryAccessor, _symbolOpacityAccessor, _orientation,
                 _onEntryClicked, _container, _isSetup, _measurer, destroyed, redrawPending,
                 renderPending, renderedData, boundAtDestroy, resubscribed>>

\* requestedSpace(offeredWidth, offeredHeight). Before _setup there is no
\* measurer, and measuring the first entry throws.
requestedSpace(offeredWidth, offeredHeight) ==
  /\ \E run \in Derivations :
       LET entryData == run.data
       IN /\ last' = IF _measurer = Null /\ entryData # <<>>
                     THEN [op |-> "requestedSpace", threw |-> TRUE]
                     ELSE [op |-> "requestedSpace", threw |-> FALSE,
                           offeredWidth |-> offeredWidth, offeredHeight |-> offeredHeight,
                           entryData |-> entryData,
                           ret |-> SpaceRequest(entryData, _measurer,
                                                offeredWidth, offeredHeight)]
          /\ domain' = DomainsAfter(run)
  /\ UNCHANGED <<registered, _colorScale, _formatter, _comparator,
                 _symbolFactoryAccessor, _symbolOpacityAccessor, _orientation,
                 _onEntryClicked, _container, _isSetup, _measurer, destroyed, redrawPending,
                 renderPending, renderedData, boundAtDestroy, resubscribed>>

\* What a render pass did to the container's nodes: how many there were, how
\* many it created, removed and kept in place, and whether anything changed.
RenderObservation(old, new) ==
  [before |-> Len(old),
   created |-> Cardinality(NodeIds(new) \ NodeIds(old)),
   removed |-> Cardinality(NodeIds(old) \ NodeIds(new)),
   reused |-> Cardinality({i \in 1..Min(Len(old), Len(new)) : new[i].id = old[i].id}),
   changed |-> (new # old)]

\* renderImmediately(). Before _setup there is no container, and selecting in it throws.
renderImmediately ==
  /\ IF ~_isSetup
     THEN /\ last' = [op |-> "renderImmediately", threw |-> TRUE]
          /\ UNCHANGED <<domain, _container, renderedData>>
     ELSE \E run \in Derivations :
            LET data == run.data
            IN /\ _container' = Rendered(_container, data)
               /\ renderedData' = data
               /\ domain' = DomainsAfter(run)
               /\ last' = [op |-> "renderImmediately", threw |-> FALSE, prev |-> last.op,
                           nodes |-> RenderObservation(_container,
                                                       Rendered(_container, data))]
  /\ UNCHANGED <<registered, _colorScale, _formatter, _comparator,
                 _symbolFactoryAccessor, _symbolOpacityAccessor, _orientation,
                 _onEntryClicked, _isSetup, _measurer, destroyed, redrawPending,
                 renderPending, boundAtDestroy, resubscribed>>

\* A click on the rendered entry node at 0-based position index.
Click(index) ==
  /\ _isSetup
  /\ ~destroyed
  /\ index + 1 \in 1..Len(_container)
  /\ last' = [op |-> "click", arg |-> index, node |-> _container[index + 1].id,
              calls |-> ClickCalls(_container[index + 1], _onEntryClicked)]
  /\ UNCHANGED <<domain, registered, _colorScale, _formatter, _comparator,
                 _symbolFactoryAccessor, _symbolOpacityAccessor, _orientation,
                 _onEntryClicked, _container, _isSetup, _measurer, destroyed, redrawPending,
                 renderPending, renderedData, boundAtDestroy, resubscribed>>

\* A faulty variant of ScaleDomain: the legend's callback requests nothing.
ScaleDomainUnheard(scale, values) ==
  /\ domain' = [domain EXCEPT ![scale] = values]
  /\ last' = [op |-> "scaleUpdate", arg |-> scale,
              calls |-> RedrawCallbackCalls(registered, scale), requested |-> FALSE]
  /\ UNCHANGED <<registered, _colorScale, _formatter, _comparator,
                 _symbolFactoryAccessor, _symbolOpacityAccessor, _orientation,
                 _onEntryClicked, _container, _isSetup, _measurer, destroyed,
                 redrawPending, renderPending, renderedData, boundAtDestroy,
                 resubscribed>>

\* Another party sets the domain of `scale`; the scale then calls every
\* callback registered on it, and the legend's callback calls redraw().
ScaleDomain(scale, values) ==
  /\ domain' = [domain EXCEPT ![scale] = values]
  /\ LET calls == RedrawCallbackCalls(registered, scale)
     IN /\ redrawPending' = (redrawPending \/ (calls > 0 /\ RequestScheduled))
        /\ last' = [op |-> "scaleUpdate", arg |-> scale, calls |-> calls,
                    requested |-> (calls > 0 /\ RequestScheduled)]
  /\ UNCHANGED <<registered, _colorScale, _formatter, _comparator,
                 _symbolFactoryAccessor, _symbolOpacityAccessor, _orientation,
                 _onEntryClicked, _container, _isSetup, _measurer, destroyed,
                 renderPending, renderedData, boundAtDestroy, resubscribed>>

\* A faulty variant of Flush: the pending work of a destroyed component is
\* done like that of a live one.
FlushAfterDestroy ==
  /\ redrawPending \/ renderPending
  /\ _isSetup
  /\ redrawPending' = FALSE
  /\ renderPending' = FALSE
  /\ \E run \in Derivations :
       /\ _container' = Rendered(_container, run.data)
       /\ renderedData' = run.data
       /\ domain' = DomainsAfter(run)
       /\ last' = [op |-> "flush", measured |-> redrawPending, rendered |-> TRUE]
  /\ UNCHANGED <<registered, _colorScale, _formatter, _comparator,
                 _symbolFactoryAccessor, _symbolOpacityAccessor, _orientation,
                 _onEntryClicked, _isSetup, _measurer, destroyed, boundAtDestroy, resubscribed>>

\* The framework serves the pending requests: a redraw request runs the
\* measurement pass and the render pass, a render request the render pass.
\* For a destroyed component the pending work is a no-op.
Flush ==
  /\ redrawPending \/ renderPending
  /\ destroyed \/ _isSetup
  /\ redrawPending' = FALSE
  /\ renderPending' = FALSE
  /\ IF destroyed
     THEN /\ last' = [op |-> "flush", measured |-> FALSE, rendered |-> FALSE]
          /\ UNCHANGED <<domain, _container, renderedData>>
     ELSE \E run \in Derivations :
            /\ _container' = Rendered(_container, run.data)
            /\ renderedData' = run.data
            /\ domain' = DomainsAfter(run)
            /\ last' = [op |-> "flush", measured |-> redrawPending, rendered |-> TRUE]
  /\ UNCHANGED <<registered, _colorScale, _formatter, _comparator,
                 _symbolFactoryAccessor, _symbolOpacityAccessor, _orientation,
                 _onEntryClicked, _isSetup, _measurer, destroyed, boundAtDestroy, resubscribed>>

----------------------------------------------------------------------------
(* The whole component: every operation, every input of the declared types *)

Next ==
  \/ _setup
  \/ \E f \in FormatterFns \cup {Null} : formatter(f)
  \/ \E o \in Orientations \cup {Null} : orientation(o)
  \/ \E c \in ComparatorFns \cup {Null} : comparator(c)
  \/ \E s \in Scales \cup {Null} : colorScale(s)
  \/ symbol(NullArg)
  \/ \E fn \in SymbolFunctions : symbol(FunctionArg(fn))
  \/ symbolOpacity(NullArg)
  \/ \E n \in OpacityNumbers : symbolOpacity(NumberArg(n))
  \/ \E fn \in OpacityFunctions : symbolOpacity(FunctionArg(fn))
  \/ destroy
  \/ \E cb \in Callbacks : onEntryClicked(cb)
  \/ CallGetEntryData
  \/ \E w \in Offers, h \in Offers : requestedSpace(w, h)
  \/ renderImmediately
  \/ \E i \in 0..(MaxDomain - 1) : Click(i)
  \/ \E s \in Scales, d \in Domains : ScaleDomain(s, d)
  \/ Flush

Spec == Init /\ [][Next]_vars

----------------------------------------------------------------------------------------------------------------------------------------------------
(* The subscription's life: a legend constructed on s1 is set up, has its     *)
(* scale replaced and queried, is destroyed, while the scales' domains are    *)
(* set by other parties and the framework serves the pending requests.        *)

SubscriptionDomains == DomainsUpTo(1)

SubscriptionInit ==
  /\ domain = [s \in Scales |-> <<>>]
  /\ Constructed("s1", "vertical")

SubscriptionNext ==
  \/ _setup
  \/ \E s \in Scales \cup {Null} : colorScale(s)
  \/ destroy
  \/ \E s \in Scales, d \in SubscriptionDomains : ScaleDomain(s, d)
  \/ Flush

SubscriptionSpec == SubscriptionInit /\ [][SubscriptionNext]_vars

----------------------------------------------------------------------------
(* Rendering and clicking: a legend on s1, set up with one of the accessor    *)
(* pairs and comparators, is rendered and clicked while the scale's domain    *)
(* changes and click callbacks are registered.                                *)

MaxRendered == 2
RenderDomains == DomainsUpTo(MaxRendered)

RenderInit ==
  /\ domain = [s \in Scales |-> <<>>]
  /\ _colorScale = "s1"
  /\ registered = {"s1"}
  /\ _orientation = "vertical"
  /\ _formatter = "identity"
  /\ _comparator \in {"default", "descending"}
  /\ \E p \in AccessorPairs : /\ _symbolFactoryAccessor = p[1]
                              /\ _symbolOpacityAccessor = p[2]
  /\ _onEntryClicked = Null
  /\ _isSetup = TRUE
  /\ _container = <<>>
  /\ _measurer = "wide"
  /\ destroyed = FALSE
  /\ redrawPending = TRUE
  /\ renderPending = FALSE
  /\ renderedData = <<>>
  /\ boundAtDestroy = Null
  /\ resubscribed = FALSE
  /\ last = [op |-> "_setup"]

RenderNext ==
  \/ \E d \in RenderDomains : ScaleDomain("s1", d)
  \/ \E cb \in Callbacks : onEntryClicked(cb)
  \/ renderImmediately
  \/ \E i \in 0..(MaxRendered - 1) : Click(i)

RenderSpec == RenderInit /\ [][RenderNext]_vars

----
(* Entry derivation and space negotiation on every configuration: the legend  *)
(* is set up, holds scale s1 with any domain, and has been configured to any  *)
(* formatter, comparator, accessors and orientation; its derivation and its   *)
(* space request are then called.                                             *)

DerivationInit ==
  /\ \E d \in Domains : domain = [s \in Scales |-> IF s = "s1" THEN d ELSE <<>>]
  /\ _colorScale = "s1"
  /\ registered = {"s1"}
  /\ _orientation \in Orientations
  /\ _formatter \in FormatterFns
  /\ _comparator \in ComparatorFns
  /\ \E p \in AccessorPairs : /\ _symbolFactoryAccessor = p[1]
                              /\ _symbolOpacityAccessor = p[2]
  /\ _onEntryClicked = Null
  /\ _isSetup = TRUE
  /\ _container = <<>>
  /\ _measurer \in MeasurerFns
  /\ destroyed = FALSE
  /\ redrawPending = TRUE
  /\ renderPending = FALSE
  /\ renderedData = <<>>
  /\ boundAtDestroy = Null
  /\ resubscribed = FALSE
  /\ last = [op |-> "constructor"]

\* Neither call changes the legend, so one call per configuration shows every
\* result the calls can give.
QueryEntryData == last.op = "constructor" /\ CallGetEntryData
QuerySpace ==
  last.op = "constructor" /\ \E w \in Offers, h \in Offers : requestedSpace(w, h)

DerivationNext == QueryEntryData \/ QuerySpace

DerivationSpec == DerivationInit /\ [][DerivationNext]_vars

----------------------------------------------------------------------------
(* Properties of the space request *)

\* The domain of the scale the legend holds.
BoundDomain == domain[_colorScale]

SpaceReturned == last.op = "requestedSpace" /\ ~last.threw

\* C3: requestedSpace called while the bound scale's domain is empty returns
\* minWidth = 0, for every offered width and height.
C3_EmptyDomainMinWidthZero ==
  (SpaceReturned /\ BoundDomain = <<>>) => last.ret.minWidth = Number(0)

\* The required width of one entry, in tenths of a pixel: text width + line
\* height * 0.6 + 5 + 10.
RequiredWidth(entry) ==
  10 * Measure(_measurer, entry.name).width
    + 6 * Measure(_measurer, entry.name).height + 50 + 100

\* C4: for a non-empty domain, requestedSpace returns as minWidth the largest
\* required width of a derived entry, and as minHeight the offered height;
\* nothing else (the offered width, the orientation) enters the result.
C4_MinWidthIsWidestEntry ==
  (SpaceReturned /\ BoundDomain # <<>>) =>
     LET entries == Range(last.entryData)
         minWidth == last.ret.minWidth
     IN /\ ~minWidth.infinite
        /\ \E e \in entries : minWidth.tenths = RequiredWidth(e)
        /\ \A e \in entries : RequiredWidth(e) <= minWidth.tenths
        /\ last.ret.minHeight = last.offeredHeight

\* The example of C4 is reached: names of widths 10 and 20 with line height 10
\* give minWidth 41, on a horizontal legend offered a width other than 41.
C4_Witness ==
  /\ SpaceReturned
  /\ BoundDomain = <<"a", "bb">>
  /\ _formatter = "identity"
  /\ _measurer = "wide"
  /\ _orientation = "horizontal"
  /\ last.offeredWidth = 300
  /\ last.offeredHeight = 0
  /\ last.ret = [minWidth |-> Number(410), minHeight |-> 0]

----------------------------------------------------------------------------
(* Properties of the entry derivation *)

EntriesReturned == last.op = "getEntryData"

\* The positions of the returned list that hold the entry of domain key k.
PositionsOf(data, k) ==
  {i \in 1..Len(data) : /\ data[i].color = ScaleColor(_colorScale, k)
                        /\ data[i].name = Formatter(_formatter, k)}

\* C5: getEntryData returns one entry per domain key, no key twice and none
\* left out, each with name = formatter(key) and color = the scale's colour of
\* the key; for every comparator, consistent or not.
C5_OneEntryPerDomainKey ==
  EntriesReturned =>
     /\ Len(last.ret) = Len(BoundDomain)
     /\ \A k \in Range(BoundDomain) : Cardinality(PositionsOf(last.ret, k)) = 1
     /\ \A i \in 1..Len(last.ret) :
          \E k \in Range(BoundDomain) : i \in PositionsOf(last.ret, k)
     /\ BoundDomain = <<>> => last.ret = <<>>

\* Keys with the same label, under a comparator that is not a consistent
\* comparison function, returned in another order than the domain's.
C5_Witness ==
  /\ EntriesReturned
  /\ _formatter = "length"
  /\ _comparator = "always1"
  /\ Len(last.ret) = 3
  /\ \E i \in 1..3 : i \notin PositionsOf(last.ret, BoundDomain[i])

\* comparator(formatter(a), formatter(b)) in the current configuration
CompareKeys(a, b) ==
  Comparator(_comparator, Formatter(_formatter, a), Formatter(_formatter, b),
             BoundDomain, _formatter)

\* The comparator orders the formatted keys of the domain as a strict total
\* order with ties does: it is a consistent comparison function on them.
ComparatorIsOrder ==
  ConsistentOn([p \in Keys \X Keys |-> CompareKeys(p[1], p[2])], Range(BoundDomain))

\* The 1-based place of key k in the sequence of keys s.
PlaceIn(s, k) == CHOOSE i \in 1..Len(s) : s[i] = k

\* C6: in the returned list a's entry is before b's whenever
\* comparator(formatter(a), formatter(b)) < 0, and entries that tie keep the
\* order of the scale's domain; for every comparator that is an order.
C6_SortedAndStable ==
  (EntriesReturned /\ ComparatorIsOrder) =>
     \A a, b \in Range(BoundDomain) :
        \A i \in PositionsOf(last.ret, a), j \in PositionsOf(last.ret, b) :
           /\ CompareKeys(a, b) < 0 => i < j
           /\ (CompareKeys(a, b) = 0 /\ PlaceIn(BoundDomain, a) < PlaceIn(BoundDomain, b))
                 => i < j

\* A sort that moves a key and keeps a tie: "bb" leaves the front, and "a"
\* and "c", which tie by length, stay in domain order.
C6_Witness ==
  /\ EntriesReturned
  /\ _comparator = "byLength"
  /\ _formatter = "identity"
  /\ BoundDomain = <<"bb", "c", "a">>
  /\ [i \in 1..3 |-> last.ret[i].name] = <<"c", "a", "bb">>

----------------------------------------------------------------------------
(* Properties of the scale subscription *)

Notified == last.op = "scaleUpdate"

\* C1: on a legend that is not destroyed, after construction and any colorScale
\* calls, the update callback is registered on the scale held and on no other
\* scale; so an update of the scale held calls it once and requests a redraw,
\* and an update of any other scale calls nothing and requests nothing.
C1_SubscribedToHeldScaleOnly ==
  ~destroyed =>
     /\ registered = {_colorScale}
     /\ Notified => /\ last.calls = (IF last.arg = _colorScale THEN 1 ELSE 0)
                    /\ last.requested = (last.arg = _colorScale)

\* The scale s1, held since construction, was replaced by s2 and then updated.
C1_Witness ==
  /\ ~destroyed
  /\ _colorScale = "s2"
  /\ Notified
  /\ last.arg = "s1"
  /\ ~last.requested

\* C2: after destroy(), an update of the scale held at destroy time requests no
\* redraw, and the framework runs no render pass of the destroyed legend; the
\* update does not even reach the legend's callback, unless colorScale(s) was
\* called on the destroyed legend. (Nothing on the way of the notification
\* throws: the callback only calls redraw().)
C2_NoRenderAfterDestroy ==
  /\ (destroyed /\ Notified /\ last.arg = boundAtDestroy) =>
        /\ ~last.requested
        /\ ~resubscribed => last.calls = 0
  /\ (destroyed /\ last.op = "flush") => ~last.rendered

\* A legend that was set up, then destroyed, and whose former scale was updated.
C2_Witness ==
  /\ destroyed
  /\ _isSetup
  /\ ~resubscribed
  /\ Notified
  /\ last.arg = boundAtDestroy

----------------------------------------------------------------------------
(* Properties of rendering and clicking *)

RenderedNow == last.op = "renderImmediately" /\ ~last.threw

\* C7: after renderImmediately() the container holds one node per derived
\* entry, the i-th showing entry i (label text, fill, opacity, path of the
\* symbol at size 100), each with one symbol node and one label node; a shorter
\* list removes the trailing nodes and a longer one appends new nodes.
C7_ViewMatchesEntries ==
  RenderedNow =>
     /\ renderedData \in getEntryData
     /\ Len(_container) = Len(renderedData)
     /\ \A i \in 1..Len(_container) :
          /\ _container[i].text = renderedData[i].name
          /\ _container[i].fill = renderedData[i].color
          /\ _container[i].opacity = renderedData[i].opacity
          /\ _container[i].d = SymbolPath(renderedData[i].symbol, 100)
          /\ Len(_container[i].children) = 2
     /\ Cardinality(NodeIds(_container)) = Len(_container)
     /\ last.nodes.created =
          (IF Len(renderedData) > last.nodes.before
           THEN Len(renderedData) - last.nodes.before ELSE 0)
     /\ last.nodes.removed =
          (IF Len(renderedData) < last.nodes.before
           THEN last.nodes.before - Len(renderedData) ELSE 0)
     /\ last.nodes.reused = Min(last.nodes.before, Len(renderedData))

\* A render that removed a trailing node and redrew the node that stayed.
C7_Witness ==
  /\ RenderedNow
  /\ last.nodes.before = 2
  /\ Len(_container) = 1
  /\ last.nodes.removed = 1
  /\ _container[1].text = "bb"

\* C8: a renderImmediately() that directly follows another one, with nothing
\* changed in between, leaves the rendered output as it is and creates and
\* removes no node; and every render keeps the nodes at the positions below
\* min(old length, new length).
C8_RenderIdempotent ==
  RenderedNow =>
     /\ last.prev = "renderImmediately" =>
           /\ ~last.nodes.changed
           /\ last.nodes.created = 0
           /\ last.nodes.removed = 0
     /\ last.nodes.reused = Min(last.nodes.before, Len(_container))

\* Two entries, rendered twice in a row.
C8_Witness ==
  /\ RenderedNow
  /\ last.prev = "renderImmediately"
  /\ Len(_container) = 2
  /\ last.nodes.before = 2

Clicked == last.op = "click"

\* C9: a click on the node at position i calls the registered callback with
\* (entry, i, node): the entry the latest render bound to position i, and the
\* node clicked.
C9_ClickPassesBoundEntry ==
  Clicked =>
     /\ _onEntryClicked # Null => Len(last.calls) >= 1
     /\ \A k \in 1..Len(last.calls) :
          /\ last.calls[k].entry = renderedData[last.arg + 1]
          /\ last.calls[k].index = last.arg
          /\ last.calls[k].node = last.node

\* A click on the second of two entries that the latest render put in
\* descending order.
C9_Witness ==
  /\ Clicked
  /\ last.arg = 1
  /\ Len(last.calls) = 1
  /\ BoundDomain = <<"a", "bb">>
  /\ last.calls[1].entry.name = "a"

\* C10: one click calls one callback once, the one registered last (the one
\* _onEntryClicked holds: onEntryClicked stores its argument); with no
\* callback registered a click calls nothing.
C10_OneCallToLatestCallback ==
  /\ last.op = "onEntryClicked" => _onEntryClicked = last.arg
  /\ Clicked =>
        IF _onEntryClicked = Null THEN last.calls = <<>>
        ELSE /\ Len(last.calls) = 1
             /\ last.calls[1].callback = _onEntryClicked

\* A click that called cb2 on a legend whose nodes a render had kept in place.
C10_Witness ==
  /\ Clicked
  /\ Len(last.calls) = 1
  /\ last.calls[1].callback = "cb2"
  /\ Len(_container) = 2

----------------------------------------------------------------------------
(* The configuration surface: a legend constructed on s1 is set up, every     *)
(* accessor is called without and with an argument, and the framework serves  *)
(* the pending requests.                                                      *)

ConfigInit ==
  /\ domain = [s \in Scales |-> IF s = "s1" THEN <<KeyPool[2], KeyPool[1]>>
                                ELSE <<KeyPool[1]>>]
  /\ Constructed("s1", "vertical")

ConfigNext ==
  \/ _setup
  \/ \E f \in {Null, "length"} : formatter(f)
  \/ \E o \in {Null, "horizontal"} : orientation(o)
  \/ \E c \in {Null, "descending"} : comparator(c)
  \/ \E s \in {Null, "s2"} : colorScale(s)
  \/ symbol(NullArg)
  \/ \E fn \in SymbolFunctions : symbol(FunctionArg(fn))
  \/ symbolOpacity(NullArg)
  \/ \E n \in OpacityNumbers : symbolOpacity(NumberArg(n))
  \/ \E fn \in OpacityFunctions : symbolOpacity(FunctionArg(fn))
  \/ Flush

ConfigSpec == ConfigInit /\ [][ConfigNext]_vars

----------------------------------------------------------------------------
(* Properties of the configuration surface *)

ConfigAccessors ==
  {"formatter", "orientation", "comparator", "colorScale", "symbol", "symbolOpacity"}
RenderAccessors == {"symbol", "symbolOpacity"}

\* The observation l is of an accessor called without argument / with one.
IsQuery(l) ==
  /\ l.op \in ConfigAccessors
  /\ IF l.op \in RenderAccessors THEN l.arg.type = "null" ELSE l.arg = Null
IsSet(l) ==
  /\ l.op \in ConfigAccessors
  /\ IF l.op \in RenderAccessors THEN l.arg.type # "null" ELSE l.arg # Null

\* The field behind each accessor.
StoredValue ==
  [formatter |-> _formatter, orientation |-> _orientation,
   comparator |-> _comparator, colorScale |-> _colorScale,
   symbol |-> _symbolFactoryAccessor, symbolOpacity |-> _symbolOpacityAccessor]

\* What the accessor named op stores for the argument arg.
ValueFor(op, arg) ==
  CASE op = "symbol" -> Unwrapped(arg)
    [] op = "symbolOpacity" -> Wrapped(arg)
    [] OTHER -> arg

\* C11 as stated: every accessor called with an argument requests a redraw,
\* the same kind of request for all six.
C11_AllSettersRequestRedraw ==
  IsSet(last) => last.called = "redraw"

\* C11: an accessor called with an argument stores it and returns the legend;
\* formatter, orientation, comparator and colorScale call redraw(), symbol and
\* symbolOpacity call render(), so that on a legend not destroyed the request
\* of that kind is pending afterwards; the call itself renders nothing.
C11_SettersStoreAndRequest ==
  [][IsSet(last') =>
       /\ StoredValue'[last'.op] = ValueFor(last'.op, last'.arg)
       /\ last'.ret = "this"
       /\ last'.called = (IF last'.op \in RenderAccessors THEN "render" ELSE "redraw")
       /\ ~destroyed =>
             IF last'.op \in RenderAccessors
             THEN renderPending' /\ redrawPending' = redrawPending
             ELSE redrawPending' /\ renderPending' = renderPending
       /\ UNCHANGED <<_container, renderedData>>]_vars

\* symbolOpacity(50) on a legend showing its entries at opacity 1: a render is
\* pending, no redraw is, and the view still shows the old opacity.
C11_Witness ==
  /\ last.op = "symbolOpacity"
  /\ last.arg.type = "number"
  /\ last.arg.value = 50
  /\ renderPending
  /\ ~redrawPending
  /\ Len(_container) = 2
  /\ _container[1].opacity = 100

\* C12: an accessor called without argument returns the field and changes
\* nothing: no field, no subscription, no pending request, no rendered node;
\* it calls neither redraw() nor render().
C12_QueryChangesNothing ==
  [][IsQuery(last') =>
       /\ last'.ret = StoredValue[last'.op]
       /\ last'.called = "none"
       /\ UNCHANGED <<domain, registered, _colorScale, _formatter, _comparator,
                      _symbolFactoryAccessor, _symbolOpacityAccessor, _orientation,
                      _onEntryClicked, _isSetup, _container, _measurer, destroyed,
                      redrawPending, renderPending, renderedData, boundAtDestroy,
                      resubscribed>>]_vars

\* colorScale() on a rendered legend that was rebound to s2: it returns s2, the
\* callback is still on s2, and nothing is pending.
C12_Witness ==
  /\ last.op = "colorScale"
  /\ last.arg = Null
  /\ last.ret = "s2"
  /\ registered = {"s2"}
  /\ ~redrawPending
  /\ ~renderPending
  /\ Len(_container) = 1

----------------------------------------------------------------------------
(* The symbol and opacity accessors: on a set-up legend holding s1, symbol    *)
(* and symbolOpacity are called with a constant, with a function of (key,     *)
(* index) and without argument, and the entries are derived.                  *)

AccessorDomains == DomainsUpTo(2)

AccessorInit ==
  /\ \E d \in AccessorDomains :
       domain = [s \in Scales |-> IF s = "s1" THEN d ELSE <<>>]
  /\ _colorScale = "s1"
  /\ registered = {"s1"}
  /\ _orientation = "vertical"
  /\ _formatter = "identity"
  /\ _comparator \in {"default", "descending"}
  /\ _symbolFactoryAccessor = Constant("circle")
  /\ _symbolOpacityAccessor = Constant(100)
  /\ _onEntryClicked = Null
  /\ _isSetup = TRUE
  /\ _container = <<>>
  /\ _measurer = "wide"
  /\ destroyed = FALSE
  /\ redrawPending = TRUE
  /\ renderPending = FALSE
  /\ renderedData = <<>>
  /\ boundAtDestroy = Null
  /\ resubscribed = FALSE
  /\ last = [op |-> "_setup"]

AccessorNext ==
  \/ symbol(NullArg)
  \/ \E fn \in SymbolFunctions : symbol(FunctionArg(fn))
  \/ \E v \in {"square"} : symbol(FactoryArg(v))
  \/ symbolOpacity(NullArg)
  \/ \E n \in OpacityNumbers : symbolOpacity(NumberArg(n))
  \/ \E fn \in OpacityFunctions : symbolOpacity(FunctionArg(fn))
  \/ CallGetEntryData

AccessorSpec == AccessorInit /\ [][AccessorNext]_vars

\* The (key, index) pairs an accessor can be called with.
AccessorCalls == Keys \X (0..(MaxDomain - 1))

\* C13 as stated: after symbol(constant) or symbolOpacity(constant) the stored
\* accessor returns the constant for every (key, index).
C13_ConstantsWrapped ==
  /\ (last.op = "symbolOpacity" /\ last.arg.type = "number") =>
        \A p \in AccessorCalls :
           ApplyAccessor(_symbolOpacityAccessor, p[1], p[2]) = last.arg.value
  /\ (last.op = "symbol" /\ last.arg.type = "factory") =>
        \A p \in AccessorCalls :
           ApplyAccessor(_symbolFactoryAccessor, p[1], p[2]) = last.arg.value

\* C13: after symbolOpacity(c) with a number c the stored accessor returns c
\* for every (key, index) and every derived entry has opacity c; a function
\* given to symbolOpacity or symbol is the accessor afterwards; symbol stores a
\* constant symbol as it is, without wrapping it, so that the constant itself
\* is called with (key, index) and no derived entry carries it as its symbol.
C13_OpacityWrappedSymbolStoredAsIs ==
  /\ (last.op = "symbolOpacity" /\ last.arg.type = "number") =>
        /\ \A p \in AccessorCalls :
              ApplyAccessor(_symbolOpacityAccessor, p[1], p[2]) = last.arg.value
        /\ \A data \in getEntryData :
              \A i \in 1..Len(data) : data[i].opacity = last.arg.value
  /\ (last.op = "symbolOpacity" /\ last.arg.type = "function") =>
        \A p \in AccessorCalls :
           ApplyAccessor(_symbolOpacityAccessor, p[1], p[2])
             = UserFunction(last.arg.value, p[1], p[2])
  /\ (last.op = "symbol" /\ last.arg.type = "function") =>
        \A p \in AccessorCalls :
           ApplyAccessor(_symbolFactoryAccessor, p[1], p[2])
             = UserFunction(last.arg.value, p[1], p[2])
  /\ (last.op = "symbol" /\ last.arg.type = "factory") =>
        /\ \A p \in AccessorCalls :
              ApplyAccessor(_symbolFactoryAccessor, p[1], p[2])
                = FactoryCalledAsAccessor(last.arg.value, p[1], p[2])
        /\ \A data \in getEntryData :
              \A i \in 1..Len(data) : data[i].symbol \notin SymbolFactories

\* symbolOpacity(50) on a legend with two entries, after symbol(square).
C13_Witness ==
  /\ last.op = "symbolOpacity"
  /\ last.arg.type = "number"
  /\ Len(BoundDomain) = 2
  /\ _symbolFactoryAccessor = Factory("square")

----------------------------------------------------------------------------
(* Construction and the default configuration: new Legend(colorScale,         *)
(* orientation) is called with a scale or with none; a legend that was        *)
(* constructed then has its formatter and its scale replaced and its entries  *)
(* derived, while other parties set the scales' domains.                      *)

\* An argument left out of a call (undefined).
Omitted == "undefined"

\* The default of the constructor's orientation parameter.
DefaultOrientation(o) == IF o = Omitted THEN "vertical" ELSE o

\* Before new Legend(...) is called there is no legend: no field holds a value.
NotConstructed ==
  /\ _orientation = Null
  /\ _colorScale = Null
  /\ registered = {}
  /\ _formatter = Null
  /\ _comparator = Null
  /\ _symbolFactoryAccessor = Null
  /\ _symbolOpacityAccessor = Null
  /\ _onEntryClicked = Null
  /\ _isSetup = FALSE
  /\ _container = <<>>
  /\ _measurer = Null
  /\ destroyed = FALSE
  /\ redrawPending = FALSE
  /\ renderPending = FALSE
  /\ renderedData = <<>>
  /\ boundAtDestroy = Null
  /\ resubscribed = FALSE

\* A faulty variant of ConstructionThrows: the redraw request of the
\* constructor's comparator(...) call is made before the scale is tested.
ConstructionThrowsAfterRedraw(o) ==
  /\ _orientation' = DefaultOrientation(o)
  /\ redrawPending' = TRUE
  /\ last' = [op |-> "constructor", threw |-> TRUE, orientation |-> o]
  /\ UNCHANGED <<domain, registered, _colorScale, _formatter, _comparator,
                 _symbolFactoryAccessor, _symbolOpacityAccessor,
                 _onEntryClicked, _isSetup, _container, _measurer, destroyed,
                 renderPending, renderedData, boundAtDestroy,
                 resubscribed>>

\* new Legend(null, orientation): the orientation is stored, then the
\* constructor throws; the caller gets no legend.
ConstructionThrows(o) ==
  /\ _orientation' = DefaultOrientation(o)
  /\ last' = [op |-> "constructor", threw |-> TRUE, orientation |-> o]
  /\ UNCHANGED <<domain, registered, _colorScale, _formatter, _comparator,
                 _symbolFactoryAccessor, _symbolOpacityAccessor,
                 _onEntryClicked, _isSetup, _container, _measurer, destroyed,
                 redrawPending, renderPending, renderedData, boundAtDestroy,
                 resubscribed>>

\* new Legend(colorScale, orientation): without a scale the constructor throws;
\* with one it subscribes to it and sets the defaults (the state Constructed),
\* and its comparator(...) call requests a redraw.
Construct(scale, o) ==
  /\ NotConstructed
  /\ IF scale = Null
     THEN ConstructionThrows(o)
     ELSE /\ _orientation' = DefaultOrientation(o)
          /\ _colorScale' = scale
          /\ registered' = OnUpdate(registered, scale)
          /\ _formatter' = "identity"
          /\ _comparator' = "default"
          /\ redrawPending' = (redrawPending \/ RequestScheduled)
          /\ _symbolFactoryAccessor' = Constant("circle")
          /\ _symbolOpacityAccessor' = Constant(100)
          /\ last' = [op |-> "constructor", threw |-> FALSE, orientation |-> o]
          /\ UNCHANGED <<domain, _onEntryClicked, _isSetup, _container, _measurer,
                         destroyed, renderPending, renderedData, boundAtDestroy,
                         resubscribed>>

\* The caller holds a legend: new Legend(...) has returned one.
LegendExists == _colorScale # Null

ConstructionDomains == Domains
OtherDomains == DomainsUpTo(1)

ConstructionInit ==
  /\ domain = [s \in Scales |-> <<>>]
  /\ NotConstructed
  /\ last = [op |-> "none"]

ConstructionNext ==
  \/ \E s \in Scales \cup {Null}, o \in Orientations \cup {Omitted} : Construct(s, o)
  \/ \E d \in ConstructionDomains : ScaleDomain("s1", d)
  \/ \E d \in OtherDomains : ScaleDomain("s2", d)
  \/ LegendExists /\ \E s \in Scales : colorScale(s)
  \/ LegendExists /\ \E f \in FormatterFns : formatter(f)
  \/ LegendExists /\ CallGetEntryData

ConstructionSpec == ConstructionInit /\ [][ConstructionNext]_vars

\* new Legend(...) was called without a scale, and threw.
ConstructionFailed == _colorScale = Null /\ _orientation # Null

\* C14: new Legend(null) throws, and new Legend(scale) does not; after the
\* failed construction no scale holds an update callback, so that no update of
\* any scale calls anything or requests a redraw, no redraw or render is
\* pending, and there is no legend to call.
C14_FailedConstructionLeavesNothing ==
  /\ last.op = "constructor" => (last.threw <=> _colorScale = Null)
  /\ ConstructionFailed =>
        /\ registered = {}
        /\ ~redrawPending
        /\ ~renderPending
        /\ ~LegendExists
        /\ ~_isSetup
        /\ Notified => (last.calls = 0 /\ ~last.requested)

\* After a construction that threw, the domain of s1 was set.
C14_Witness ==
  /\ ConstructionFailed
  /\ Notified
  /\ last.arg = "s1"
  /\ Len(domain["s1"]) = 2

\* C15: a legend just constructed has the identity formatter, the default
\* comparator, opacity 1 and the circle symbol for every entry, and the
\* orientation given, vertical if none was; and with the default comparator,
\* whatever domains the scales were given, whichever scale the legend now
\* holds and whatever formatter it has (one giving distinct keys the same
\* label included), getEntryData returns the entries in the order of the
\* held scale's domain.
C15_DefaultsAndDomainOrder ==
  /\ (last.op = "constructor" /\ ~last.threw) =>
        /\ _formatter = "identity"
        /\ _comparator = "default"
        /\ _symbolOpacityAccessor = Constant(100)
        /\ _symbolFactoryAccessor = Constant("circle")
        /\ _orientation = (IF last.orientation = Omitted THEN "vertical"
                           ELSE last.orientation)
  /\ (EntriesReturned /\ _comparator = "default") =>
        /\ Len(last.ret) = Len(BoundDomain)
        /\ \A i \in 1..Len(last.ret) :
              /\ last.ret[i].name = Formatter(_formatter, BoundDomain[i])
              /\ last.ret[i].color = ScaleColor(_colorScale, BoundDomain[i])
              /\ last.ret[i].opacity = 100
              /\ last.ret[i].symbol = "circle"

----------------------------------------------------------------------------
(* Properties of the accessor calls in the derivation *)

\* The domain key whose entry is at position i of the returned list.
KeyAt(data, i) ==
  CHOOSE k \in Range(BoundDomain) : data[i].color = ScaleColor(_colorScale, k)

\* C16: the entry at position i of the returned list (0-based) carries
\* opacityAccessor(key, i) and symbolAccessor(key, i), where key is the raw
\* domain key of that entry and i its index after the sort; not the formatted
\* name, and not the key's index in the domain.
C16_AccessorsGetKeyAndSortedIndex ==
  EntriesReturned =>
     \A i \in 1..Len(last.ret) :
        /\ last.ret[i].opacity =
              ApplyAccessor(_symbolOpacityAccessor, KeyAt(last.ret, i), i - 1)
        /\ last.ret[i].symbol =
              ApplyAccessor(_symbolFactoryAccessor, KeyAt(last.ret, i), i - 1)

\* Accessors that depend on key and index, a formatter that changes the length
\* of the text, and a sort that moves "bb" from domain index 0 to index 2.
C16_Witness ==
  /\ EntriesReturned
  /\ _symbolOpacityAccessor = Function("fade")
  /\ _symbolFactoryAccessor = Function("shapeOf")
  /\ _formatter = "length"
  /\ _comparator = "ascending"
  /\ BoundDomain = <<"bb", "a", "c">>
  /\ last.ret[3].opacity = 40
  /\ last.ret[3].symbol = "square"

----------------------------------------------------------------------------
(* The legend's effect on the shared scale: a set-up legend on s1 derives,    *)
(* measures and renders its entries, has its comparator and its scale         *)
(* replaced and is destroyed, while another party sets the domain of s1.      *)

FrameDomains == DomainsUpTo(2)

FrameNext ==
  \/ \E d \in FrameDomains : ScaleDomain("s1", d)
  \/ CallGetEntryData
  \/ \E w \in Offers : requestedSpace(w, 0)
  \/ renderImmediately
  \/ \E c \in {"default", "descending"} : comparator(c)
  \/ \E s \in Scales : colorScale(s)
  \/ destroy

FrameSpec == RenderInit /\ [][FrameNext]_vars

\* C17: no operation of the legend changes a scale's domain, its contents or
\* its order: deriving, measuring and rendering sort a copy, whatever the
\* comparator, and the setters and destroy() do not touch the domain. Only
\* another party's domain update changes it.
C17_ScaleDomainUntouched ==
  [][last'.op # "scaleUpdate" => domain' = domain]_vars

\* A derivation that put "bb" before "a" while the domain of s1 is still
\* <<"a", "bb">>.
C17_Witness ==
  /\ EntriesReturned
  /\ _comparator = "descending"
  /\ domain["s1"] = <<"a", "bb">>
  /\ _colorScale = "s1"
  /\ last.ret[1].name = "bb"
  /\ Len(_container) = 2

----------------------------------------------------------------------------
(* The deferred redraw of a live legend: a set-up legend on s1 has its        *)
(* formatter, symbol opacity and scale changed while the domains are set by   *)
(* other parties; the framework serves every pending request in the end.      *)

LiveDomains == DomainsUpTo(1)

LiveInit ==
  /\ domain = [s \in Scales |-> <<>>]
  /\ _colorScale = "s1"
  /\ registered = {"s1"}
  /\ _orientation = "vertical"
  /\ _formatter = "identity"
  /\ _comparator = "default"
  /\ _symbolFactoryAccessor = Constant("circle")
  /\ _symbolOpacityAccessor = Constant(100)
  /\ _onEntryClicked = Null
  /\ _isSetup = TRUE
  /\ _container = <<>>
  /\ _measurer = "wide"
  /\ destroyed = FALSE
  /\ redrawPending = TRUE
  /\ renderPending = FALSE
  /\ renderedData = <<>>
  /\ boundAtDestroy = Null
  /\ resubscribed = FALSE
  /\ last = [op |-> "_setup"]

LiveNext ==
  \/ \E s \in Scales, d \in LiveDomains : ScaleDomain(s, d)
  \/ \E f \in {"identity", "upper"} : formatter(f)
  \/ \E n \in OpacityNumbers : symbolOpacity(NumberArg(n))
  \/ \E s \in Scales : colorScale(s)
  \/ Flush

\* The framework's scheduler runs the deferred work once it is pending.
LiveSpec == LiveInit /\ [][LiveNext]_vars /\ WF_vars(Flush)

----------------------------------------------------------------------------
(* Properties of the deferred redraw *)

\* The rendered nodes show an entry list that getEntryData derives now.
ViewShowsDerivation ==
  \E data \in getEntryData :
     /\ Len(_container) = Len(data)
     /\ \A i \in 1..Len(data) :
          /\ _container[i].text = data[i].name
          /\ _container[i].fill = data[i].color
          /\ _container[i].opacity = data[i].opacity
          /\ _container[i].d = SymbolPath(data[i].symbol, SVG_VIEWBOX_SIZE)

RequestPending == redrawPending \/ renderPending

\* C19: on a legend set up and not destroyed, a pending redraw or render
\* request is followed by a render pass in the end (one pass serves all the
\* requests pending when it runs); and whenever no request is pending, the
\* rendered nodes show the entries derived from the scale's domain and the
\* configuration as they are, so they do once the changes have stopped.
C19_RequestLeadsToRender ==
  /\ [](~RequestPending => ViewShowsDerivation)
  /\ (RequestPending ~> (last.op = "flush" /\ last.rendered))

\* A pass that served a redraw request and shows the entry of the rebound
\* scale s2 under the formatter and the opacity set before it ran.
C19_Witness ==
  /\ last.op = "flush"
  /\ last.rendered
  /\ last.measured
  /\ _colorScale = "s2"
  /\ Len(_container) = 1
  /\ _container[1].text = "BB"
  /\ _container[1].opacity = 50


----------------------------------------------------------------------------
(* The subscription after destroy() *)

\* C20: the update callback is registered on at most one scale at any time,
\* and on no scale once destroy() has been called, whatever is called on the
\* legend afterwards, colorScale(newScale) included.
C20_ReleasedAfterDestroy ==
  /\ Cardinality(registered) <= 1
  /\ destroyed => registered = {}

====
